---- MODULE Spec2Model ----
(***************************************************************************)
(* Model of src/bot.py: the Notion -> Telegram status watcher.             *)
(*                                                                         *)
(* The model covers the SQLite state store (users, page_status, meta),     *)
(* the paginated query_since fetch, the check_loop coroutine with its      *)
(* exception handlers, the /start handler, the remote Notion database      *)
(* (edited by its users), the wall clock and process restarts.             *)
(*                                                                         *)
(* Time is counted in ticks; one day (timedelta(days=1)) is Day ticks.     *)
(* datetime.isoformat() is order preserving on UTC timestamps and Notion   *)
(* parses it back for the on_or_after filter, so a timestamp is kept as    *)
(* its tick number.                                                        *)
(***************************************************************************)
EXTENDS Integers, Sequences, FiniteSets, TLC

\* ---------------------------------------------------------------- bounds
\* the clock runs from 1 to MaxClock
MaxClock == 2
\* page_size of databases.query (100 in the source, line 185)
PageSize == 1

\* ------------------------------------------------------------- constants
\* timedelta(days=1), in ticks
Day == 1

\* page ids of the Notion database, chat ids that may register
Records == {1, 2}
Chats == {1, 2}

\* Python's None, and an empty Notion select property ("select": null)
None == "None"
NoSelect == "NoSelect"
\* page_status holds no row for the page
NoRow == "NoRow"

\* TRIGGER_STATUSES (transliterated; the second literal mixes Latin and
\* Cyrillic letters in the source)
TRIGGER_STATUSES == {"Zakanchivaetsya", "ZAKONCHILOS_latin", "ZAKONCHILOS"}

\* the values the status property of a page may take in the remote
\* database: select option names, or NoSelect
Selects == {"OK", "Zakanchivaetsya"}

VARIABLES
    \* --- SQLite state store (state.db)
    users,          \* table users: set of chat_id
    page_status,    \* table page_status: page_id -> last_status | NoRow
    meta,           \* table meta, key last_checked_iso: <<>> or <<value>>
    \* --- remote Notion database and wall clock
    notion_select,  \* page id -> select option name | NoSelect
    last_edited,    \* page id -> last_edited_time
    clock,
    \* --- check_loop coroutine
    pc,             \* "start" | "query" | "resp" | "loop" | "send" | "ended"
                    \* | "sleep" | "dead"
    last_checked,   \* local last_checked (line 268), never reassigned in the loop
    start_cursor,   \* query_since local: <<>> (None) or <<last id returned>>
    pages,          \* query_since local: pages accumulated so far
    changed,        \* local changed (line 276)
    now_iso,        \* local now_iso (line 280)
    i,              \* position of the for loop over changed (line 281)
    subs,           \* local subs (line 291)
    j,              \* position of the for loop over subs (line 293)
    \* --- observers (history of the run, not program state)
    outcome,        \* how the cycle that just ended ended ("none" otherwise);
                    \* under the watch "last" it is kept until the next cycle
                    \* issues its fetch, and a restart is recorded as
                    \* "restarted" until the first cycle after it ends
    before,         \* page_status at the start of the current cycle
    metaBefore,     \* meta at the start of the current cycle
    issuedAt,       \* clock when the first page request of the cycle was issued
    fired,          \* pages for which line 287 held in the current cycle
    upserted,       \* pages whose upsert_status succeeded in the current cycle
    delivery,       \* send_message calls of the current cycle: "none",
                    \* "ok" (all returned) or "failed" (one raised)
    failedTo,       \* chats whose send_message raised during the current event
    attempts,       \* page -> chat -> send_message calls since the page's
                    \* persisted status last changed (capped at 2)
    prevTrig,       \* page -> the trigger status the previous cycle's fetch
                    \* returned for it, None when it returned none
    prevUps,        \* the pages among them whose upsert_status succeeded in
                    \* the previous cycle
    osc,            \* page -> how many of the last successful cycles, up to
                    \* this one, returned it with the statuses of Pattern
    oscFired,       \* page -> the positions in that run at which line 287 held
    reg,            \* the last start_handler call: <<>> or <<[chat, known,
                    \* raised]>>, known telling whether the chat was in users
                    \* before the call and raised whether register_user raised
    owed,           \* the pairs <<page, chat>> of a TriggerEvent's page and a
                    \* chat registered when the event's status was persisted,
                    \* for which send_message has not been called since
    \* --- configuration of a run, fixed by its initial state
    palette,        \* the status values the remote database's users choose from
    watch           \* the history observers that are switched on

store == <<users, page_status, meta>>
remote == <<notion_select, last_edited>>
locals == <<pc, last_checked, start_cursor, pages, changed, now_iso, i, subs, j>>
cycleObs == <<outcome, before, metaBefore, issuedAt, fired, upserted,
              delivery, failedTo>>
historyObs == <<attempts, prevTrig, prevUps, osc, oscFired>>
ledger == <<reg, owed>>
config == <<palette, watch>>
observers == <<cycleObs, historyObs, ledger, config>>
vars == <<users, page_status, meta, notion_select, last_edited, clock,
          pc, last_checked, start_cursor, pages, changed, now_iso, i, subs, j,
          outcome, before, metaBefore, issuedAt, fired, upserted,
          delivery, failedTo, attempts, prevTrig, prevUps, osc, oscFired,
          reg, owed, palette, watch>>

\* ------------------------------------------------------------- helpers
Min(S) == CHOOSE x \in S : \A y \in S : x <= y

RECURSIVE Ascending(_)
\* the elements of a finite set of integers in ascending order
Ascending(S) == IF S = {} THEN <<>> ELSE <<Min(S)>> \o Ascending(S \ {Min(S)})

Take(s, n) == SubSeq(s, 1, IF Len(s) < n THEN Len(s) ELSE n)

Ids(s) == {s[k].id : k \in 1..Len(s)}

Range(s) == {s[k] : k \in 1..Len(s)}

\* ------------------------------------------------------- state store ops
\* a get_last_status that finds no row whatever the table holds
get_last_status_norow(page_id) == None

\* get_last_status: the row's last_status, None when there is no row
get_last_status(page_id) ==
    IF page_status[page_id] = NoRow THEN None ELSE page_status[page_id]

\* an upsert_status with ON CONFLICT DO NOTHING: an existing row is kept
upsert_status_keep_row(page_id, status) ==
    IF page_status[page_id] = NoRow
      THEN [page_status EXCEPT ![page_id] = status]
      ELSE page_status

\* an upsert_status that writes nothing for a status of None
upsert_status_skip_none(page_id, status) ==
    IF status = None THEN page_status
    ELSE [page_status EXCEPT ![page_id] = status]

\* upsert_status, lines 74-80: the table afterwards (INSERT ... ON
\* CONFLICT(page_id) DO UPDATE SET last_status; None is stored as NULL)
upsert_status(page_id, status) == [page_status EXCEPT ![page_id] = status]

\* INSERT INTO users without OR IGNORE: a chat_id that is already a row
\* violates the PRIMARY KEY and sqlite3.IntegrityError is raised
InsertPlain(rows, chat_id) ==
    [rows |-> rows \cup {chat_id}, raised |-> chat_id \in rows]

\* line 61, INSERT OR IGNORE INTO users(chat_id): the table afterwards, and
\* whether the statement raised
InsertOrIgnore(rows, chat_id) ==
    [rows |-> rows \cup {chat_id}, raised |-> FALSE]

\* get_subscribers: SELECT chat_id FROM users (rowid order)
get_subscribers == Ascending(users)

\* extract_status: the select option's name, None for an empty select
extract_status(p) == IF p.select # NoSelect THEN p.select ELSE None

\* a first-run checkpoint one day ahead instead of one day back
InitialCheckpointAhead(now) == now + Day

\* line 270: first-run checkpoint
InitialCheckpoint(now) == now - Day

\* line 287 without the comparison with the previous status
ShouldTriggerNoDiff(curr, prev) ==
    curr # None /\ curr \in TRIGGER_STATUSES

\* line 287 firing on a change to any status
ShouldTriggerAnyChange(curr, prev) ==
    curr # None /\ curr # prev

\* line 287 firing only for a page seen before
ShouldTriggerKnownOnly(curr, prev) ==
    curr # None /\ curr \in TRIGGER_STATUSES /\ curr # prev /\ prev # None

\* line 287
ShouldTrigger(curr, prev) ==
    curr # None /\ curr \in TRIGGER_STATUSES /\ curr # prev

\* ------------------------------------------------------ remote database
\* pages matching the last_edited_time on_or_after filter, after the cursor
Matching(since, cursor) ==
    {r \in Records : last_edited[r] >= since
                     /\ (cursor = <<>> \/ r > cursor[1])}

PageOf(r) == [id |-> r, select |-> notion_select[r]]

\* one response of databases.query: up to page_size results
Results(since, cursor) ==
    LET ids == Take(Ascending(Matching(since, cursor)), PageSize)
    IN  [k \in 1..Len(ids) |-> PageOf(ids[k])]

MoreRemain(since, cursor) == Cardinality(Matching(since, cursor)) > PageSize

\* ------------------------------------------------------------------ Init
InitWith(statuses, watched) ==
    /\ palette = statuses
    /\ watch = watched
    /\ users = {}
    /\ page_status = [r \in Records |-> NoRow]
    /\ meta = <<>>
    /\ notion_select \in [Records -> statuses]
    /\ last_edited = [r \in Records |-> 0]
    /\ clock = 1
    /\ pc = "start"
    /\ last_checked = 0
    /\ start_cursor = <<>>
    /\ pages = <<>>
    /\ changed = <<>>
    /\ now_iso = 0
    /\ i = 1
    /\ subs = <<>>
    /\ j = 1
    /\ outcome = "none"
    /\ before = page_status
    /\ metaBefore = meta
    /\ issuedAt = 0
    /\ fired = {}
    /\ upserted = {}
    /\ delivery = "none"
    /\ failedTo = {}
    /\ attempts = [r \in Records |-> [c \in Chats |-> 0]]
    /\ prevTrig = [r \in Records |-> None]
    /\ prevUps = {}
    /\ osc = [r \in Records |-> 0]
    /\ oscFired = [r \in Records |-> {}]
    /\ reg = <<>>
    /\ owed = {}

Init == InitWith(Selects, {})

\* ------------------------------------------------------------- observers
\* the locals a finished cycle leaves behind are dead: each is assigned
\* again before it is read
ClearLocals ==
    /\ start_cursor' = <<>>
    /\ pages' = <<>>
    /\ changed' = <<>>
    /\ now_iso' = 0
    /\ i' = 1
    /\ subs' = <<>>
    /\ j' = 1

\* the trigger status a fetch result holds for page r, None when it holds none
TrigIn(result, r) ==
    IF \E k \in 1..Len(result) :
          result[k].id = r /\ extract_status(result[k]) \in TRIGGER_STATUSES
      THEN extract_status(result[CHOOSE k \in 1..Len(result) : result[k].id = r])
      ELSE None

\* the status a fetch result holds for page r (r is in the result)
StatusIn(result, r) ==
    extract_status(result[CHOOSE k \in 1..Len(result) : result[k].id = r])

\* "OK" -> "Expiring" -> "OK" -> "Expiring"
Pattern == <<"OK", "Zakanchivaetsya", "OK", "Zakanchivaetsya">>

\* the run of page r after a successful cycle that returned it with status
\* st: the longest suffix of its observations that is a prefix of Pattern
OscNext(r, st) ==
    IF osc[r] < Len(Pattern) /\ st = Pattern[osc[r] + 1] THEN osc[r] + 1
    ELSE IF st # Pattern[1] THEN 0
    ELSE IF osc[r] = Len(Pattern) THEN 3
    ELSE 1

OscFiredNext(r, st, hit) ==
    LET n == OscNext(r, st)
        kept == IF n = osc[r] + 1 THEN oscFired[r]
                ELSE IF n = 3 THEN {q - 2 : q \in {q \in oscFired[r] : q > 2}}
                ELSE {}
    IN  IF n = 0 THEN {} ELSE kept \cup (IF hit THEN {n} ELSE {})

ResetOsc ==
    /\ osc' = [r \in Records |-> 0]
    /\ oscFired' = [r \in Records |-> {}]

\* a cycle ends in the given way, its fetch having returned result (<<>>
\* when it failed), ups being the pages upserted in it and hits the pages
\* for which line 287 held
CycleEnd(how, result, ups, hits) ==
    /\ outcome' = how
    /\ IF "repeat" \in watch
         THEN /\ prevTrig' = [r \in Records |-> TrigIn(result, r)]
              /\ prevUps' = {r \in ups : TrigIn(result, r) # None}
         ELSE UNCHANGED <<prevTrig, prevUps>>
    /\ IF "osc" \in watch /\ how = "ok"
         THEN /\ osc' = [r \in Records |->
                           IF r \in Ids(result)
                             THEN OscNext(r, StatusIn(result, r)) ELSE 0]
              /\ oscFired' = [r \in Records |->
                           IF r \in Ids(result)
                             THEN OscFiredNext(r, StatusIn(result, r), r \in hits)
                             ELSE {}]
         ELSE ResetOsc

\* an exception of a cycle that leaves check_loop: the task ends
AbortEndsTask(how, result, ups) ==
    /\ pc' = "dead"
    /\ CycleEnd(how, result, ups, {})
    /\ ClearLocals
    /\ issuedAt' = 0
    /\ fired' = {}
    /\ upserted' = {}
    /\ failedTo' = {}
    /\ UNCHANGED <<before, metaBefore, delivery>>

\* a cycle is aborted by an exception: lines 300-303
Abort(how, result, ups) ==
    /\ pc' = "ended"
    /\ CycleEnd(how, result, ups, {})
    /\ ClearLocals
    /\ issuedAt' = 0
    /\ fired' = {}
    /\ upserted' = {}
    /\ failedTo' = {}
    /\ UNCHANGED <<before, metaBefore, delivery>>

\* what the observers record when line 285 has persisted the status of a
\* TriggerEvent for page_id: a message is owed to every registered chat
RecordEvent(page_id) ==
    owed' = IF "owed" \in watch
              THEN owed \cup {<<page_id, c>> : c \in users}
              ELSE owed

\* ------------------------------------------------------------ check_loop
\* lines 268-272 with the checkpoint initialised at every start
LoopInitAlways ==
    /\ pc = "start"
    /\ last_checked' = InitialCheckpoint(clock)
    /\ meta' = <<InitialCheckpoint(clock)>>
    /\ pc' = "query"
    /\ metaBefore' = meta'
    /\ UNCHANGED <<users, page_status, remote, clock, start_cursor, pages,
                   changed, now_iso, i, subs, j, outcome, before, issuedAt,
                   fired, upserted, delivery, failedTo, historyObs>>
    /\ UNCHANGED <<ledger, config>>

\* lines 268-272: read the checkpoint, initialise it on the first run, and
\* enter the first cycle (there is no sleep before it)
LoopInit ==
    /\ pc = "start"
    /\ IF meta = <<>>
         THEN /\ last_checked' = InitialCheckpoint(clock)
              /\ meta' = <<InitialCheckpoint(clock)>>
         ELSE /\ last_checked' = meta[1]
              /\ UNCHANGED meta
    /\ pc' = "query"
    /\ metaBefore' = meta'
    /\ UNCHANGED <<users, page_status, remote, clock, start_cursor, pages,
                   changed, now_iso, i, subs, j, outcome, before, issuedAt,
                   fired, upserted, delivery, failedTo, historyObs>>
    /\ UNCHANGED <<ledger, config>>

\* lines 268-272 when get_meta or set_meta raises: the exception leaves
\* check_loop, which is outside the try of line 275, and the task ends
LoopInitFail ==
    /\ pc = "start"
    /\ pc' = "dead"
    /\ UNCHANGED <<store, remote, clock, last_checked, start_cursor, pages,
                   changed, now_iso, i, subs, j, observers>>

\* lines 181-186: one databases.query request goes out
QueryRequest ==
    /\ pc = "query"
    /\ pc' = "resp"
    /\ issuedAt' = IF start_cursor = <<>> /\ pages = <<>> THEN clock ELSE issuedAt
    /\ outcome' = IF outcome = "restarted" THEN outcome ELSE "none"
    /\ UNCHANGED <<store, remote, clock, last_checked, start_cursor, pages,
                   changed, now_iso, i, subs, j, before, metaBefore,
                   fired, upserted, delivery, failedTo, historyObs>>
    /\ UNCHANGED <<ledger, config>>

\* lines 187-190: a response with has_more set; the walk goes on.
\* The remote answers has_more when results remain, and a remote that
\* breaks the protocol may answer has_more when none remain.
QueryMore ==
    /\ pc = "resp"
    /\ LET res == Results(last_checked, start_cursor)
       IN  /\ pages' = pages \o res
           /\ start_cursor' = IF Len(res) = 0 THEN start_cursor
                              ELSE <<res[Len(res)].id>>
    /\ pc' = "query"
    /\ UNCHANGED <<store, remote, clock, last_checked, changed, now_iso, i,
                   subs, j, observers>>

\* lines 187-191 and 277-280: the last response (has_more false), then
\* get_db_meta and get_title_prop_name succeed and now_iso is taken
QueryDone ==
    /\ pc = "resp"
    /\ ~MoreRemain(last_checked, start_cursor)
    /\ changed' = pages \o Results(last_checked, start_cursor)
    /\ pages' = <<>>
    /\ start_cursor' = <<>>
    /\ now_iso' = clock
    /\ pc' = "loop"
    /\ UNCHANGED <<store, remote, clock, last_checked, i, subs, j, observers>>

\* a failed fetch that still moves the checkpoint (line 299 in a finally)
QueryFailAdvances ==
    /\ pc = "resp"
    /\ meta' = <<clock>>
    /\ Abort("fetch_error", <<>>, {})
    /\ UNCHANGED <<users, page_status, remote, clock, last_checked, attempts>>
    /\ UNCHANGED <<ledger, config>>

\* line 181 raises APIResponseError: lines 300-301
QueryFail ==
    /\ pc = "resp"
    /\ Abort("fetch_error", <<>>, {})
    /\ UNCHANGED <<store, remote, clock, last_checked, attempts>>
    /\ UNCHANGED <<ledger, config>>

\* lines 277-278 raise after the fetch returned: lines 300-303
DbMetaFail ==
    /\ pc = "resp"
    /\ ~MoreRemain(last_checked, start_cursor)
    /\ Abort("meta_error", pages \o Results(last_checked, start_cursor), {})
    /\ UNCHANGED <<store, remote, clock, last_checked, attempts>>
    /\ UNCHANGED <<ledger, config>>

\* lines 282-292 for the page at position i: read the previous status,
\* upsert the current one, decide, and read the subscribers of an event
Evaluate ==
    /\ pc = "loop"
    /\ i <= Len(changed)
    /\ LET page_id == changed[i].id
           curr == extract_status(changed[i])
           prev == get_last_status(page_id)
       IN  /\ page_status' = upsert_status(page_id, curr)
           /\ upserted' = upserted \cup {page_id}
           /\ attempts' = IF page_status'[page_id] = page_status[page_id]
                            THEN attempts
                            ELSE [attempts EXCEPT
                                    ![page_id] = [c \in Chats |-> 0]]
           /\ IF ShouldTrigger(curr, prev)
                THEN /\ fired' = fired \cup {page_id}
                     /\ RecordEvent(page_id)
                     /\ IF get_subscribers = <<>>
                          THEN /\ i' = i + 1
                               /\ UNCHANGED <<pc, subs>>
                          ELSE /\ pc' = "send"
                               /\ subs' = get_subscribers
                               /\ UNCHANGED i
                ELSE /\ i' = i + 1
                     /\ UNCHANGED <<pc, fired, subs, owed>>
    /\ UNCHANGED <<users, meta, remote, clock, last_checked, start_cursor,
                   pages, changed, now_iso, j, outcome, before, metaBefore,
                   issuedAt, delivery, failedTo, prevTrig, prevUps, osc,
                   oscFired>>
    /\ UNCHANGED <<reg, config>>

\* a store error in the for loop after which line 299 still runs (set_meta
\* in a finally)
EvaluateFailAdvances ==
    /\ pc = "loop"
    /\ i <= Len(changed)
    /\ meta' = <<now_iso>>
    /\ Abort("store_error", changed, upserted)
    /\ UNCHANGED <<users, page_status, remote, clock, last_checked, attempts>>
    /\ UNCHANGED <<ledger, config>>

\* get_last_status (line 284) or upsert_status (line 285) raises
\* sqlite3.Error: nothing is written, lines 302-303
EvaluateFail ==
    /\ pc = "loop"
    /\ i <= Len(changed)
    /\ Abort("store_error", changed, upserted)
    /\ UNCHANGED <<store, remote, clock, last_checked, attempts>>
    /\ UNCHANGED <<ledger, config>>

\* get_subscribers (line 291) raises after the upsert of a triggering page:
\* lines 302-303
SubscribersFail ==
    /\ pc = "loop"
    /\ i <= Len(changed)
    /\ LET page_id == changed[i].id
           curr == extract_status(changed[i])
           prev == get_last_status(page_id)
       IN  /\ ShouldTrigger(curr, prev)
           /\ page_status' = upsert_status(page_id, curr)
           /\ attempts' = [attempts EXCEPT ![page_id] = [c \in Chats |-> 0]]
           /\ RecordEvent(page_id)
           /\ Abort("store_error", changed, upserted \cup {page_id})
    /\ UNCHANGED <<users, meta, remote, clock, last_checked>>
    /\ UNCHANGED <<reg, config>>

\* the for loop of line 293 moves to the next subscriber, or is exhausted
\* and the for loop of line 281 moves to the next page
NextRecipient ==
    IF j < Len(subs)
      THEN /\ j' = j + 1
           /\ UNCHANGED <<pc, i, subs>>
      ELSE /\ j' = 1
           /\ subs' = <<>>
           /\ pc' = "loop"
           /\ i' = i + 1

Bump(n) == IF n < 2 THEN n + 1 ELSE 2

\* what the observers record of one send_message call to subs[j]
RecordAttempt ==
    /\ attempts' = IF "attempts" \in watch
                     THEN [attempts EXCEPT ![changed[i].id][subs[j]] = Bump(@)]
                     ELSE attempts
    /\ owed' = owed \ {<<changed[i].id, subs[j]>>}

\* line 295: send_message returns
SendOk ==
    /\ pc = "send"
    /\ RecordAttempt
    /\ delivery' = IF delivery = "failed" THEN "failed" ELSE "ok"
    /\ failedTo' = IF j < Len(subs) THEN failedTo ELSE {}
    /\ NextRecipient
    /\ UNCHANGED <<store, remote, clock, last_checked, start_cursor, pages,
                   changed, now_iso, outcome, before, metaBefore,
                   issuedAt, fired, upserted, prevTrig, prevUps, osc, oscFired>>
    /\ UNCHANGED <<reg, config>>

\* line 295 raises and nothing catches it before line 302
SendFailAborts ==
    /\ pc = "send"
    /\ RecordAttempt
    /\ pc' = "ended"
    /\ CycleEnd("delivery_error", changed, upserted, {})
    /\ ClearLocals
    /\ issuedAt' = 0
    /\ fired' = {}
    /\ upserted' = {}
    /\ failedTo' = {}
    /\ delivery' = "failed"
    /\ UNCHANGED <<store, remote, clock, last_checked, before, metaBefore>>
    /\ UNCHANGED <<reg, config>>

\* line 295 raises: lines 296-297 log it and the loop of line 293 goes on
SendFail ==
    /\ pc = "send"
    /\ RecordAttempt
    /\ delivery' = "failed"
    /\ failedTo' = IF j < Len(subs) THEN failedTo \cup {subs[j]} ELSE {}
    /\ NextRecipient
    /\ UNCHANGED <<store, remote, clock, last_checked, start_cursor, pages,
                   changed, now_iso, outcome, before, metaBefore,
                   issuedAt, fired, upserted, prevTrig, prevUps, osc, oscFired>>
    /\ UNCHANGED <<reg, config>>

\* line 299 after the last page: the checkpoint is set to now_iso
SetCheckpoint ==
    /\ pc = "loop"
    /\ i > Len(changed)
    /\ meta' = <<now_iso>>
    /\ pc' = "ended"
    /\ CycleEnd("ok", changed, upserted, fired)
    /\ UNCHANGED <<users, page_status, remote, clock, last_checked,
                   start_cursor, pages, changed, now_iso, i, subs, j,
                   before, metaBefore, issuedAt, fired, upserted, delivery,
                   failedTo, attempts>>
    /\ UNCHANGED <<ledger, config>>

\* set_meta (line 299) raises: lines 302-303
SetCheckpointFail ==
    /\ pc = "loop"
    /\ i > Len(changed)
    /\ Abort("store_error", changed, upserted)
    /\ UNCHANGED <<store, remote, clock, last_checked, attempts>>
    /\ UNCHANGED <<ledger, config>>

\* what the observers hold between two cycles; how tells the way the last
\* cycle, or the process, ended
ClearCycle(how) ==
    /\ ClearLocals
    /\ outcome' = IF "last" \in watch THEN how ELSE "none"
    /\ before' = page_status
    /\ metaBefore' = meta
    /\ issuedAt' = 0
    /\ fired' = {}
    /\ upserted' = {}
    /\ delivery' = "none"
    /\ failedTo' = {}

\* line 304: the cycle is over, asyncio.sleep suspends check_loop
EnterSleep ==
    /\ pc = "ended"
    /\ pc' = "sleep"
    /\ ClearCycle(outcome)
    /\ UNCHANGED <<store, remote, clock, last_checked, historyObs>>
    /\ UNCHANGED <<ledger, config>>

\* line 304 returns and the while loop of line 274 starts the next cycle;
\* last_checked is the local of line 268 and is not read again from meta
Wake ==
    /\ pc = "sleep"
    /\ pc' = "query"
    /\ UNCHANGED <<store, remote, clock, last_checked, start_cursor, pages,
                   changed, now_iso, i, subs, j, observers>>

\* ------------------------------------------------------------ environment
\* register_user, lines 59-61
register_user(chat_id) == users' = InsertOrIgnore(users, chat_id).rows

\* a /start handler that also deletes the checkpoint row
start_handler_resets ==
    /\ pc \in {"start", "send", "sleep", "dead"}
    /\ \E chat_id \in Chats :
          /\ register_user(chat_id)
          /\ reg' = IF "reg" \in watch
                      THEN <<[chat |-> chat_id, known |-> chat_id \in users,
                              raised |-> InsertOrIgnore(users, chat_id).raised]>>
                      ELSE reg
    /\ meta' = <<>>
    /\ UNCHANGED <<page_status, remote, clock, locals, cycleObs,
                   historyObs, owed, config>>

\* start_handler, line 195. A handler runs only while check_loop is
\* suspended in an await that yields to the event loop: send_message
\* (line 295) or asyncio.sleep (line 304), or before the task has run or
\* after it has ended. query_since contains no await that suspends, so no
\* handler runs during the fetch.
start_handler ==
    /\ pc \in {"start", "send", "sleep", "dead"}
    /\ \E chat_id \in Chats :
          /\ register_user(chat_id)
          /\ reg' = IF "reg" \in watch
                      THEN <<[chat |-> chat_id, known |-> chat_id \in users,
                              raised |-> InsertOrIgnore(users, chat_id).raised]>>
                      ELSE reg
    /\ UNCHANGED <<page_status, meta, remote, clock, locals, cycleObs,
                   historyObs, owed, config>>

\* cb_all, lines 217-240: get_db_meta, query_all and send_message; it reads
\* the remote database and writes nothing of the state store
cb_all ==
    /\ pc \in {"start", "send", "sleep", "dead"}
    /\ UNCHANGED vars

\* cb_group, lines 242-264: get_db_meta, query_by_group and send_message;
\* it reads the remote database and writes nothing of the state store
cb_group ==
    /\ pc \in {"start", "send", "sleep", "dead"}
    /\ UNCHANGED vars

\* a user of the Notion database sets a page's status: Notion stamps
\* last_edited_time. While a fetch is in flight only edits of pages the
\* walk has already returned are followed: an edit of a page the walk has
\* not reached reads to the program like one made before the fetch.
Edit ==
    /\ pc \in {"resp", "sleep"}
    /\ \E r \in Records, s \in palette :
          /\ pc = "resp" => r \in Ids(pages)
          /\ s # notion_select[r]
          /\ notion_select' = [notion_select EXCEPT ![r] = s]
          /\ last_edited' = [last_edited EXCEPT ![r] = clock]
    /\ UNCHANGED <<store, clock, locals, observers>>

\* time passes (observed where the program waits: during a request to
\* Notion and during the sleep)
Tick ==
    /\ pc \in {"resp", "sleep"}
    /\ clock < MaxClock
    /\ clock' = clock + 1
    /\ UNCHANGED <<store, remote, locals, observers>>

\* the process is killed and started again: run_app, init_db (CREATE TABLE
\* IF NOT EXISTS keeps the rows), create_task(check_loop)
Restart ==
    /\ pc' = "start"
    /\ last_checked' = 0
    /\ ClearCycle("restarted")
    /\ prevTrig' = [r \in Records |-> None]
    /\ prevUps' = {}
    /\ ResetOsc
    /\ reg' = <<>>
    /\ UNCHANGED <<store, remote, clock, attempts, owed, config>>

PollStep ==
    \/ LoopInit \/ LoopInitFail
    \/ QueryRequest \/ QueryMore \/ QueryDone \/ QueryFail \/ DbMetaFail
    \/ Evaluate \/ EvaluateFail \/ SubscribersFail
    \/ SendOk \/ SendFail
    \/ SetCheckpoint \/ SetCheckpointFail
    \/ EnterSleep \/ Wake

Next ==
    \/ PollStep
    \/ start_handler \/ cb_all \/ cb_group
    \/ Edit \/ Tick \/ Restart

Spec == Init /\ [][Next]_vars

\* the same program with the observer of repeated fetches switched on
InitRepeat == InitWith(Selects, {"repeat"})
SpecRepeat == InitRepeat /\ [][Next]_vars

\* the same program with the observer of delivery attempts switched on
InitAttempts == InitWith(Selects, {"attempts"})
SpecAttempts == InitAttempts /\ [][Next]_vars

\* the same program with the observer of the oscillation Pattern switched on
InitOsc == InitWith(Selects, {"osc"})
SpecOsc == InitOsc /\ [][Next]_vars

\* the event loop runs check_loop whenever it can take a step
FairSpec == Spec /\ WF_vars(PollStep)

\* the same program with a remote database whose users also clear the
\* status property of a page
InitAbsent == InitWith(Selects \cup {NoSelect}, {})
SpecAbsent == InitAbsent /\ [][Next]_vars

\* the same program with the observer of start_handler calls switched on
InitReg == InitWith(Selects, {"reg"})
SpecReg == InitReg /\ [][Next]_vars

\* the same, with the observer of owed messages switched on
InitOwed == InitWith(Selects, {"owed"})
FairOwed == InitOwed /\ [][Next]_vars /\ WF_vars(PollStep)

\* the same, with the way the last cycle ended kept over the sleep
InitLast == InitWith(Selects, {"last"})
FairLast == InitLast /\ [][Next]_vars /\ WF_vars(PollStep)


\* ================================================================ claims
\* the status persisted for page r when the current cycle started, as
\* get_last_status reported it
PrevOf(r) == IF before[r] = NoRow THEN None ELSE before[r]

\* the for loop of line 281 is running: prevTrig and prevUps still tell of
\* the previous cycle, and page r was returned by the current cycle's fetch
\* with the trigger status the previous cycle's fetch returned for it
Repeated(r) ==
    /\ pc \in {"loop", "send"}
    /\ r \in Ids(changed)
    /\ prevTrig[r] # None
    /\ StatusIn(changed, r) = prevTrig[r]

\* no send_message call is being made for page r
NotSendingFor(r) == pc = "send" => changed[i].id # r

\* C1 (as stated): a page returned by the fetch in two consecutive cycles
\* with the same trigger status gets no TriggerEvent and no message in the
\* second cycle.
C1_RepeatNeverFires ==
    \A r \in Records : Repeated(r) => r \notin fired /\ NotSendingFor(r)

\* C1 (amended): a page returned by the fetch in two consecutive cycles with
\* the same trigger status, and whose status the first cycle persisted,
\* gets no TriggerEvent and no message in the second cycle, whoever is
\* registered.
C1_PersistedRepeatNeverFires ==
    \A r \in Records :
        Repeated(r) /\ r \in prevUps => r \notin fired /\ NotSendingFor(r)

\* C1 witness: the second cycle has evaluated such a page, with every chat
\* registered, and nothing fired for it
C1_Witness ==
    \E r \in Records :
        /\ Repeated(r) /\ r \in prevUps
        /\ r \in upserted
        /\ r \notin fired
        /\ users = Chats

\* C2: in every cycle a TriggerEvent is produced for an evaluated page
\* exactly when its fetched status is a trigger value and differs from the
\* status persisted by the previous observation; so a page returned by four
\* consecutive successful cycles as OK, Expiring, OK, Expiring fires in the
\* second and the fourth, and only there.
C2_FiresExactlyOnTransition ==
    /\ \A r \in upserted :
          r \in fired <=> /\ StatusIn(changed, r) \in TRIGGER_STATUSES
                          /\ StatusIn(changed, r) # PrevOf(r)
    /\ \A r \in Records : oscFired[r] = {q \in 1..osc[r] : q % 2 = 0}

\* C2 witness: a page has gone through the four cycles and fired in 2 and 4
C2_Witness ==
    \E r \in Records : osc[r] = 4 /\ oscFired[r] = {2, 4}

\* C3: a page with no page_status row whose fetched status is a trigger
\* value produces a TriggerEvent in the cycle that first evaluates it.
C3_FirstSightingFires ==
    \A r \in upserted :
        before[r] = NoRow /\ StatusIn(changed, r) \in TRIGGER_STATUSES
            => r \in fired

\* C3 witness: such a page has been evaluated and has fired
C3_Witness ==
    \E r \in upserted :
        /\ before[r] = NoRow
        /\ StatusIn(changed, r) \in TRIGGER_STATUSES
        /\ r \in fired

\* C4: when the changed-since fetch fails, the checkpoint and the
\* page_status rows are what they were when the cycle started and no
\* message was sent in the cycle.
C4_FetchFailureChangesNothing ==
    outcome = "fetch_error" =>
        /\ meta = metaBefore
        /\ page_status = before
        /\ delivery = "none"

\* C4 witness: a fetch has failed in a cycle that had rows to lose and
\* chats to notify
C4_Witness ==
    /\ pc = "ended"
    /\ outcome = "fetch_error"
    /\ \E r \in Records : page_status[r] \in TRIGGER_STATUSES
    /\ users # {}

\* C5 (as stated): the watermark passed to the fetch is the checkpoint
\* persisted when the cycle started.
C5_WatermarkIsCheckpoint ==
    pc = "resp" => <<last_checked>> = metaBefore

\* C6 (as stated): the checkpoint a successful cycle persists is not later
\* than the moment its fetch was issued.
C6_CheckpointNotAfterFetch ==
    pc = "ended" /\ outcome = "ok" => meta[1] <= issuedAt

\* C7: the persisted checkpoint never decreases (and is never removed),
\* from the first-run initialisation on.
C7_CheckpointMonotone ==
    [][meta # <<>> => meta' # <<>> /\ meta'[1] >= meta[1]]_vars

\* C7 witness: a successful cycle has advanced the checkpoint beyond the
\* one it started with
C7_Witness ==
    /\ pc = "ended"
    /\ outcome = "ok"
    /\ metaBefore # <<>>
    /\ meta[1] > metaBefore[1]

\* the fan-out of the current event so far: every chat of the list read
\* for it before position j has had one send_message call, the others none
FanOutSoFar ==
    pc = "send" =>
        \A k \in 1..Len(subs) :
            attempts[changed[i].id][subs[k]] = (IF k < j THEN 1 ELSE 0)

\* a cycle in which a send_message call raised and no store operation did
\* has evaluated every fetched page and advanced the checkpoint
FailedDeliveryCycleCompletes ==
    pc = "ended" /\ delivery = "failed" /\ outcome # "store_error" =>
        /\ outcome = "ok"
        /\ upserted = Ids(changed)
        /\ meta = <<now_iso>>

\* C8: for every TriggerEvent, send_message is called exactly once for each
\* chat of the list read for it, whether or not a call for another chat
\* raised; a call that raised ends neither the fan-out, nor the loop over
\* the fetched pages, nor the checkpoint update.
C8_DeliveryIsolation ==
    [][/\ FanOutSoFar'
       /\ pc = "send" /\ pc' \notin {"send", "start"} =>
             /\ pc' = "loop"
             /\ i' = i + 1
             /\ \A c \in Range(subs) : attempts'[changed[i].id][c] = 1
       /\ FailedDeliveryCycleCompletes']_vars

\* C8 witness: a cycle with two events and two chats in which a call raised
\* has ended with the checkpoint advanced and one call per event and chat
C8_Witness ==
    /\ pc = "ended"
    /\ outcome = "ok"
    /\ delivery = "failed"
    /\ fired = Records
    /\ meta = <<now_iso>>
    /\ \A r \in Records : \A c \in Chats : attempts[r][c] = 1

\* C9 (as stated): the pagination walk of a fetch always ends.
C9_FetchTerminates == (pc = "query") ~> (pc \notin {"query", "resp"})

\* C10: between two changes of a page's persisted status, send_message is
\* called at most once per chat for that page, over all cycles and
\* restarts.
C10_AtMostOneAttempt ==
    \A r \in Records : \A c \in Chats : attempts[r][c] <= 1

\* C10 witness: a later cycle has evaluated again a page whose transition
\* was already notified, and has not fired for it
C10_Witness ==
    /\ pc \in {"loop", "ended"}
    /\ \E r \in upserted :
          /\ r \notin fired
          /\ page_status[r] \in TRIGGER_STATUSES
          /\ \E c \in Chats : attempts[r][c] = 1

\* check_loop is inside its while loop (lines 274-304)
InLoop == pc \in {"query", "resp", "loop", "send", "ended", "sleep"}

\* C11: once check_loop has entered its loop it has no terminal state: no
\* step of a cycle ends the task, every cycle that ended (completed, or
\* failed with a fetch error, a store error or any other error) is followed
\* by the sleep, and the sleep by the next cycle, for as long as the process
\* is not restarted.
C11_LoopNeverEnds ==
    /\ [][InLoop => pc' # "dead"]_vars
    /\ [][pc = "ended" => pc' \in {"ended", "sleep", "start"}]_vars
    /\ (pc = "ended") ~> (pc \in {"sleep", "start"})
    /\ (pc = "sleep") ~> (pc \in {"query", "start"})

\* C11 witness: a cycle failed with a store error, check_loop slept and has
\* started another cycle
C11_Witness ==
    /\ pc = "query"
    /\ outcome = "store_error"

\* a cycle is under way: from its fetch to its last step
InCycle == pc \in {"query", "resp", "loop", "send"}

\* C12 (as stated): no handler step is interleaved between two steps of one
\* cycle: while a cycle is under way the users table does not change (the
\* cycle itself never writes it).
C12_NoYieldInsideCycle ==
    [][InCycle /\ pc' \in {"query", "resp", "loop", "send", "ended"}
          => users' = users]_vars

\* every registered chat is listed exactly once by get_subscribers
ListedOnce ==
    \A c \in users :
        Cardinality({k \in 1..Len(get_subscribers) : get_subscribers[k] = c}) = 1

\* C13: register_user is idempotent: a start_handler call for a chat leaves
\* it registered and raises nothing, a call for a chat that is already
\* registered leaves the users table as it was, and get_subscribers lists
\* every registered chat exactly once.
C13_RegisterIdempotent ==
    [][/\ reg' # reg /\ reg' # <<>> =>
             /\ ~reg'[1].raised
             /\ reg'[1].chat \in users'
             /\ reg'[1].known => users' = users
       /\ ListedOnce']_vars

\* C13 witness: a chat that was already registered has been registered
\* again, and is listed once
C13_Witness ==
    /\ reg # <<>>
    /\ reg[1].known
    /\ ~reg[1].raised
    /\ reg[1].chat \in users
    /\ ListedOnce

\* C14 (as stated): after a successful cycle every page whose
\* last_edited_time is at or before the persisted checkpoint has been
\* evaluated: its page_status row holds the status it was given by that
\* last edit.
C14_CheckpointCoversEvaluated ==
    pc = "ended" /\ outcome = "ok" =>
        \A r \in Records :
            last_edited[r] <= meta[1] =>
                page_status[r] = extract_status(PageOf(r))

\* C15: the checkpoint is advanced only by a cycle that succeeded: a cycle
\* ended by a failed store operation (get_last_status, upsert_status,
\* get_subscribers, set_meta), like one ended by a failed fetch, leaves the
\* checkpoint as it was when the cycle started; and no cycle is ended by a
\* send_message call that raised: such a cycle either succeeds, and then the
\* checkpoint is the cycle's now_iso, or is ended by a store error.
C15_CheckpointOnlyOnSuccess ==
    /\ pc = "ended" /\ outcome # "ok" => meta = metaBefore
    /\ pc = "ended" =>
          outcome \in {"ok", "fetch_error", "meta_error", "store_error"}
    /\ pc = "ended" /\ outcome = "ok" => meta = <<now_iso>>

\* C15 witness: a store error has ended a cycle that had already upserted a
\* status and whose now_iso was later than the checkpoint, which is unchanged
C15_Witness ==
    /\ pc = "ended"
    /\ outcome = "store_error"
    /\ page_status # before
    /\ meta = metaBefore
    /\ meta[1] < clock

\* C16: after a successful cycle the page_status row of every page the
\* fetch returned holds the fetched status, whether or not line 287 held for
\* it, and the row of every other page is what it was when the cycle
\* started.
C16_UpsertFrame ==
    pc = "ended" /\ outcome = "ok" =>
        \A r \in Records :
            IF r \in Ids(changed)
              THEN page_status[r] = StatusIn(changed, r)
              ELSE page_status[r] = before[r]

\* C16 witness: a successful cycle has replaced the status of a page
\* without an event, and has not fetched another page that has a row
C16_Witness ==
    /\ pc = "ended"
    /\ outcome = "ok"
    /\ \E r \in Ids(changed) :
          /\ r \notin fired
          /\ before[r] # NoRow
          /\ page_status[r] # before[r]
    /\ \E r \in Records \ Ids(changed) : before[r] # NoRow

\* C17: a fetched page whose status is absent produces no TriggerEvent,
\* whatever its page_status row held, and its row then holds None; and a
\* page whose row holds None and which is fetched in a trigger status
\* produces a TriggerEvent.
C17_AbsentNeverTriggers ==
    \A r \in upserted :
        /\ StatusIn(changed, r) = None =>
              r \notin fired /\ page_status[r] = None
        /\ before[r] = None /\ StatusIn(changed, r) \in TRIGGER_STATUSES =>
              r \in fired

\* C17 witness: in one cycle a page that had a trigger status was evaluated
\* with an absent status and did not fire, and a page whose row held None
\* was evaluated in a trigger status and fired
C17_Witness ==
    /\ \E r \in upserted :
          /\ before[r] \in TRIGGER_STATUSES
          /\ StatusIn(changed, r) = None
          /\ r \notin fired
          /\ page_status[r] = None
    /\ \E r \in upserted :
          /\ before[r] = None
          /\ StatusIn(changed, r) \in TRIGGER_STATUSES
          /\ r \in fired

\* C18: writers are exclusive: a step of a command handler (start_handler,
\* cb_all, cb_group) changes neither the checkpoint nor a page_status row, a
\* step of check_loop does not change the users table, and every step that
\* changes the checkpoint or a page_status row is a step of check_loop.
C18_ExclusiveWriters ==
    [][/\ start_handler \/ cb_all \/ cb_group =>
             UNCHANGED <<page_status, meta>>
       /\ PollStep => users' = users
       /\ page_status' # page_status \/ meta' # meta => PollStep]_vars

\* C18 witness: with chats registered by the handler, a cycle of check_loop
\* has written page_status rows and advanced the checkpoint
C18_Witness ==
    /\ pc = "ended"
    /\ outcome = "ok"
    /\ users = Chats
    /\ page_status # before
    /\ meta # metaBefore

\* C19 (as stated): a trigger-worthy transition is never silently consumed:
\* once a cycle has persisted the trigger status of a TriggerEvent,
\* send_message is eventually called for the page and every chat registered
\* at that moment, in that cycle or in a later one. Stated here for page 1
\* and chat 1, and for the runs in which successful cycles never stop
\* occurring.
C19_TriggerNeverConsumed ==
    []<>(pc = "ended" /\ outcome = "ok") =>
        ((<<1, 1>> \in owed) ~> (<<1, 1>> \notin owed))

\* page r was evaluated by the current cycle with the trigger status its
\* row held when the cycle started
SameTriggerStatus(r) ==
    /\ r \in upserted
    /\ before[r] \in TRIGGER_STATUSES
    /\ StatusIn(changed, r) = before[r]

\* C20: a restart of the process keeps the state store; check_loop then
\* starts from the persisted checkpoint, which it does not initialise again,
\* and in the first cycle after the restart a page fetched with the trigger
\* status already persisted for it produces no TriggerEvent.
C20_RestartPreservesState ==
    [][/\ Restart => store' = store
       /\ pc = "start" /\ pc' = "query" /\ meta # <<>> =>
             meta' = meta /\ last_checked' = meta[1]
       /\ outcome' = "restarted" =>
             \A r \in Records : SameTriggerStatus(r)' => r \notin fired']_vars

\* C20 witness: after a restart check_loop has resumed from a persisted
\* checkpoint that differs from now minus one day, and has evaluated without
\* an event a page whose trigger status was persisted before the restart
C20_Witness ==
    /\ outcome = "restarted"
    /\ pc = "loop"
    /\ meta = metaBefore
    /\ last_checked = meta[1]
    /\ last_checked # InitialCheckpoint(clock)
    /\ \E r \in Records : SameTriggerStatus(r) /\ r \notin fired

====
